---- MODULE Spec2Model ----
(***************************************************************************)
(* Model of exec-capture-output/src/app.rs: `main` resolves the command,   *)
(* forks a child on a fresh pty (pty::fork::Fork::from_ptmx), the parent   *)
(* drains the pty master with read_to_string and prints the result, the    *)
(* forked child runs the target with std::process::Command::status() and   *)
(* exits with the target's exit code.                                      *)
(*                                                                         *)
(* Three processes appear: the parent (the invoking process), the forked   *)
(* child, and the target command that Command::status() spawns from the    *)
(* forked child and waits for.  The pty is a FIFO of bytes from the slave  *)
(* side to the master; its line discipline is not modelled, so every byte  *)
(* sequence below is "as delivered by the pty".                            *)
(***************************************************************************)
EXTENDS Integers, Sequences, FiniteSets

\* ---- bounds of the model ----
MaxOut == 2      \* longest output script of the target command
MaxExit == 1     \* target exit codes are 0..MaxExit
MaxCmd == 3      \* longest command list (program name included)
MaxRuns == 2     \* invocations in sequence with the same inputs

\* ---- program constants ----
PanicCode == 101 \* exit status of a Rust process whose main thread panics

\* bytes the target may write: ESC, space, and 0xFF (never valid in UTF-8)
Bytes == {27, 32, 255}
Signals == {9, 15}
Words == {"p", "x"}
PriorFiles == {<<>>, <<97>>}

SeqsUpTo(S, n) == UNION {[1..k -> S] : k \in 0..n}

NoStatus == [kind |-> "none", val |-> 0]
Exited(c) == [kind |-> "exit", val |-> c]
Signaled(s) == [kind |-> "signal", val |-> s]

VARIABLES
    command_args,     \* opts.command_args
    outpath_writable, \* whether a file can be created/written at opts.outpath
    file,             \* content of the file at opts.outpath
    prog,             \* the target program: bytes it writes, code it exits with
    runNo,            \* number of the current invocation
    pc,               \* position of the parent in main
    executable_path,  \* the local of that name
    master,           \* the parent's pty master: "none", "open", "closed"
    output,           \* the String `output` being filled by read_to_string
    stdout,           \* bytes the parent has printed on its own stdout
    parentStatus,     \* termination status of the invoking process
    cstate,           \* forked child: "none","start","waiting","zombie","reaped"
    cstatus,          \* termination status of the forked child
    gstate,           \* target command: "none","running","zombie","reaped"
    gstatus,          \* termination status of the target command
    gpos,             \* number of bytes of prog.out the target has written
    launched,         \* what Command was given: <<>> or <<[path, args]>>
    pty,              \* bytes written to the slave and not yet read
    written,          \* every byte written to the slave so far, in order
    prev,             \* how the previous invocation ended (history)
    probe,            \* what lines 68 and 73 learnt from the file system (history)
    did               \* <<process, operation>> pairs carried out so far (history)

vars == <<command_args, outpath_writable, file, prog, runNo, pc,
          executable_path, master, output, stdout, parentStatus, cstate,
          cstatus, gstate, gstatus, gpos, launched, pty, written, prev,
          probe, did>>

inputs == <<command_args, outpath_writable, prog, prev>>
parentVars == <<pc, executable_path, master, output, stdout, parentStatus>>
childVars == <<cstate, cstatus>>
targetVars == <<gstate, gstatus, gpos, launched>>

\* ---- pure helpers ----

\* str::from_utf8 restricted to one- and two-byte encodings (Bytes holds no
\* lead byte of a longer form)
RECURSIVE IsUtf8(_)
IsUtf8(s) ==
    IF s = <<>> THEN TRUE
    ELSE IF s[1] < 128 THEN IsUtf8(Tail(s))
    ELSE IF s[1] \in 194..223 /\ Len(s) >= 2 /\ s[2] \in 128..191
         THEN IsUtf8(Tail(Tail(s)))
    ELSE FALSE

IsWhite(b) == b \in {9, 10, 11, 12, 13, 32}

RECURSIVE TrimStart(_)
TrimStart(s) ==
    IF s # <<>> /\ IsWhite(s[1]) THEN TrimStart(Tail(s)) ELSE s

RECURSIVE TrimEnd(_)
TrimEnd(s) ==
    IF s # <<>> /\ IsWhite(s[Len(s)])
    THEN TrimEnd(SubSeq(s, 1, Len(s) - 1)) ELSE s

\* str::trim
Trim(s) == TrimEnd(TrimStart(s))

\* "child tty is: "
TtyPrefix == <<99, 104, 105, 108, 100, 32, 116, 116, 121, 32, 105, 115, 58, 32>>

\* println!("child tty is: {}", output.trim())
TtyLine(s) == TtyPrefix \o Trim(s) \o <<10>>

\* the panic report a panicking process writes on its stderr ('!')
PanicMsg == <<33>>

\* the argument loop without skip(1)
SkipOne_mut(s) == s

\* (&opts.command_args).iter().skip(1)
SkipOne(s) == IF s = <<>> THEN <<>> ELSE Tail(s)

\* which(name): the path found on PATH
WhichPath(name) == <<"PATH", name>>

\* PathBuf::from(name)
PathFrom(name) == <<"", name>>

\* the slave end is open in some live process
SlaveOpen == cstate \in {"start", "waiting"} \/ gstate = "running"

ParentEnded == pc \in {"done", "panicked"}

\* ---- initial state ----

NoRun == [ended |-> "none", file |-> <<>>, written |-> <<>>]

\* nothing looked up yet
NoProbe == [exists |-> "unknown", which |-> "unused"]

FreshRun ==
    /\ pc = "resolve"
    /\ executable_path = <<>>
    /\ master = "none"
    /\ output = <<>>
    /\ stdout = <<>>
    /\ parentStatus = NoStatus
    /\ cstate = "none"
    /\ cstatus = NoStatus
    /\ gstate = "none"
    /\ gstatus = NoStatus
    /\ gpos = 0
    /\ launched = <<>>
    /\ pty = <<>>
    /\ written = <<>>
    /\ probe = NoProbe
    /\ did = {}

Init ==
    /\ command_args \in SeqsUpTo(Words, MaxCmd)
    /\ outpath_writable \in BOOLEAN
    /\ file \in PriorFiles
    /\ prog \in [out : SeqsUpTo(Bytes, MaxOut), code : 0..MaxExit]
    /\ runNo = 1
    /\ prev = NoRun
    /\ FreshRun

\* ---- the parent ----

\* a panic of the parent: unwinding drops `fork`, which closes the master
ParentPanics ==
    /\ pc' = "panicked"
    /\ parentStatus' = Exited(PanicCode)
    /\ master' = IF master = "open" THEN "closed" ELSE master

\* Resolve with the PATH lookup done first and preferred
Resolve_mut ==
    /\ pc = "resolve"
    /\ \/ /\ command_args = <<>>
          /\ ParentPanics
          /\ UNCHANGED <<executable_path, probe>>
       \/ /\ command_args # <<>>
          /\ \E command_exists \in BOOLEAN, found \in BOOLEAN :
                /\ probe' = [exists |-> IF command_exists THEN "yes" ELSE "no",
                             which |-> IF found THEN "found" ELSE "missing"]
                /\ IF found
                   THEN /\ executable_path' = WhichPath(command_args[1])
                        /\ pc' = "fork"
                        /\ UNCHANGED <<parentStatus, master>>
                   ELSE IF command_exists
                   THEN /\ executable_path' = PathFrom(command_args[1])
                        /\ pc' = "fork"
                        /\ UNCHANGED <<parentStatus, master>>
                   ELSE /\ ParentPanics
                        /\ UNCHANGED executable_path
    /\ UNCHANGED <<inputs, did, file, runNo, output, stdout, childVars,
                   targetVars, pty, written>>

\* lines 67-74: index command_args[0], Path::exists, which(..).unwrap()
Resolve ==
    /\ pc = "resolve"
    /\ \/ /\ command_args = <<>>
          /\ ParentPanics
          /\ UNCHANGED <<executable_path, probe>>
       \/ /\ command_args # <<>>
          /\ \E command_exists \in BOOLEAN :
                IF command_exists
                THEN /\ executable_path' = PathFrom(command_args[1])
                     /\ probe' = [exists |-> "yes", which |-> "unused"]
                     /\ pc' = "fork"
                     /\ UNCHANGED <<parentStatus, master>>
                ELSE \E found \in BOOLEAN :
                     IF found
                     THEN /\ executable_path' = WhichPath(command_args[1])
                          /\ probe' = [exists |-> "no", which |-> "found"]
                          /\ pc' = "fork"
                          /\ UNCHANGED <<parentStatus, master>>
                     ELSE /\ ParentPanics
                          /\ probe' = [exists |-> "no", which |-> "missing"]
                          /\ UNCHANGED executable_path
    /\ UNCHANGED <<inputs, did, file, runNo, output, stdout, childVars,
                   targetVars, pty, written>>

\* ForkPty with the duplication done before the allocation result is checked
ForkPty_mut ==
    /\ pc = "fork"
    /\ \E ok \in BOOLEAN :
          IF ok
          THEN /\ pc' = "drain"
               /\ master' = "open"
               /\ cstate' = "start"
               /\ UNCHANGED parentStatus
          ELSE /\ ParentPanics
               /\ cstate' = "start"
    /\ UNCHANGED <<inputs, probe, did, file, runNo, executable_path, output, stdout,
                   cstatus, targetVars, pty, written>>

\* line 77: Fork::from_ptmx().unwrap(); on success the child exists and the
\* parent holds the master (line 80)
ForkPty ==
    /\ pc = "fork"
    /\ \E ok \in BOOLEAN :
          IF ok
          THEN /\ pc' = "drain"
               /\ master' = "open"
               /\ cstate' = "start"
               /\ UNCHANGED parentStatus
          ELSE /\ ParentPanics
               /\ UNCHANGED cstate
    /\ UNCHANGED <<inputs, probe, did, file, runNo, executable_path, output, stdout,
                   cstatus, targetVars, pty, written>>

\* Read with each chunk printed as it arrives
Read_mut ==
    /\ pc = "drain"
    /\ pty # <<>>
    /\ output' = Append(output, Head(pty))
    /\ pty' = Tail(pty)
    /\ stdout' = Append(stdout, Head(pty))
    /\ did' = did \cup {<<"parent", "read">>, <<"parent", "print">>}
    /\ UNCHANGED <<inputs, probe, file, runNo, pc, executable_path, master,
                   parentStatus, childVars, targetVars, written>>

\* line 83, read_to_string: one read that returns data
Read ==
    /\ pc = "drain"
    /\ pty # <<>>
    /\ output' = Append(output, Head(pty))
    /\ pty' = Tail(pty)
    /\ did' = did \cup {<<"parent", "read">>}
    /\ UNCHANGED <<inputs, probe, file, runNo, pc, executable_path, master, stdout,
                   parentStatus, childVars, targetVars, written>>

\* lines 83-85, read_to_string: the read that returns end-of-stream; the
\* bytes are validated as UTF-8, and on failure `output` is truncated back
\* and the Err arm panics
ReadEof ==
    /\ pc = "drain"
    /\ pty = <<>>
    /\ ~SlaveOpen
    /\ IF IsUtf8(output)
       THEN /\ pc' = "print"
            /\ UNCHANGED <<output, parentStatus, master>>
       ELSE /\ output' = <<>>
            /\ ParentPanics
    /\ did' = did \cup {<<"parent", "read">>}
    /\ UNCHANGED <<inputs, probe, file, runNo, executable_path, stdout, childVars,
                   targetVars, pty, written>>

\* ReadErr with the failed read taken for end-of-stream
ReadErr_mut ==
    /\ pc = "drain"
    /\ pc' = "print"
    /\ did' = did \cup {<<"parent", "read">>}
    /\ UNCHANGED <<inputs, probe, file, runNo, executable_path, master, output,
                   parentStatus, stdout, childVars, targetVars, pty, written>>

\* lines 83-85, read_to_string: a read that fails; the Err arm panics
ReadErr ==
    /\ pc = "drain"
    /\ output' = IF IsUtf8(output) THEN output ELSE <<>>
    /\ ParentPanics
    /\ did' = did \cup {<<"parent", "read">>}
    /\ UNCHANGED <<inputs, probe, file, runNo, executable_path, stdout, childVars,
                   targetVars, pty, written>>

\* line 84: the Ok arm prints the capture on the parent's stdout
Println ==
    /\ pc = "print"
    /\ stdout' = stdout \o TtyLine(output)
    /\ pc' = "ret"
    /\ did' = did \cup {<<"parent", "print">>}
    /\ UNCHANGED <<inputs, probe, file, runNo, executable_path, master, output,
                   parentStatus, childVars, targetVars, pty, written>>

\* lines 86-98: leave the if, return Ok(()); `fork` is dropped
Return ==
    /\ pc = "ret"
    /\ pc' = "done"
    /\ parentStatus' = Exited(0)
    /\ master' = "closed"
    /\ did' = did \cup {<<"parent", "return">>}
    /\ UNCHANGED <<inputs, probe, file, runNo, executable_path, output, stdout,
                   childVars, targetVars, pty, written>>

\* ---- the forked child ----

\* the forked child panics: report on stderr (the pty slave), exit 101
ChildPanics ==
    /\ cstate' = "zombie"
    /\ cstatus' = Exited(PanicCode)
    /\ pty' = pty \o PanicMsg
    /\ written' = written \o PanicMsg
    /\ did' = did \cup {<<"child", "launch">>, <<"child", "panic">>}

\* lines 89-93: build the Command and start it; a failed launch makes
\* status() return Err and expect() panic
ChildSpawn ==
    /\ cstate = "start"
    /\ \E launch_ok \in BOOLEAN :
          IF launch_ok
          THEN /\ cstate' = "waiting"
               /\ gstate' = "running"
               /\ launched' = <<[path |-> executable_path,
                                 args |-> SkipOne(command_args)]>>
               /\ did' = did \cup {<<"child", "launch">>}
               /\ UNCHANGED <<cstatus, pty, written>>
          ELSE /\ ChildPanics
               /\ UNCHANGED <<gstate, launched>>
    /\ UNCHANGED <<inputs, probe, file, runNo, parentVars, gstatus, gpos>>

\* ChildExit with a missing exit code skipped instead of panicking: the child
\* leaves the else branch and reaches Ok(()) at line 97
ChildExit_mut ==
    /\ cstate = "waiting"
    /\ gstate = "zombie"
    /\ gstate' = "reaped"
    /\ cstate' = "zombie"
    /\ IF gstatus.kind = "exit"
       THEN /\ cstatus' = Exited(gstatus.val)
            /\ did' = did \cup {<<"child", "exit">>}
       ELSE /\ cstatus' = Exited(0)
            /\ did' = did \cup {<<"child", "return">>}
    /\ UNCHANGED <<inputs, probe, file, runNo, parentVars, gstatus, gpos,
                   launched, pty, written>>

\* ChildExit that exits with 0 whatever the target's status
ChildExit_zero ==
    /\ cstate = "waiting"
    /\ gstate = "zombie"
    /\ gstate' = "reaped"
    /\ cstate' = "zombie"
    /\ cstatus' = Exited(0)
    /\ did' = did \cup {<<"child", "exit">>}
    /\ UNCHANGED <<inputs, probe, file, runNo, parentVars, gstatus, gpos,
                   launched, pty, written>>

\* lines 93-94: status() returns once the target has terminated (it reaps
\* the target); exit with its code, or panic when it has none
ChildExit ==
    /\ cstate = "waiting"
    /\ gstate = "zombie"
    /\ gstate' = "reaped"
    /\ IF gstatus.kind = "exit"
       THEN /\ cstate' = "zombie"
            /\ cstatus' = Exited(gstatus.val)
            /\ did' = did \cup {<<"child", "exit">>}
            /\ UNCHANGED <<pty, written>>
       ELSE ChildPanics
    /\ UNCHANGED <<inputs, probe, file, runNo, parentVars, gstatus, gpos, launched>>

\* a signal from outside terminates the forked child
KillChild ==
    /\ cstate \in {"start", "waiting"}
    /\ \E s \in Signals :
          /\ cstate' = "zombie"
          /\ cstatus' = Signaled(s)
    /\ did' = did \cup {<<"child", "killed">>}
    /\ UNCHANGED <<inputs, probe, file, runNo, parentVars, targetVars, pty, written>>

\* ---- the target command (started by line 93) ----

TargetWrite ==
    /\ gstate = "running"
    /\ gpos < Len(prog.out)
    /\ gpos' = gpos + 1
    /\ pty' = Append(pty, prog.out[gpos + 1])
    /\ written' = Append(written, prog.out[gpos + 1])
    /\ UNCHANGED <<inputs, probe, did, file, runNo, parentVars, childVars, gstate,
                   gstatus, launched>>

TargetExit ==
    /\ gstate = "running"
    /\ gpos = Len(prog.out)
    /\ gstate' = "zombie"
    /\ gstatus' = Exited(prog.code)
    /\ UNCHANGED <<inputs, probe, did, file, runNo, parentVars, childVars, gpos,
                   launched, pty, written>>

\* a signal from outside terminates the target
KillTarget ==
    /\ gstate = "running"
    /\ \E s \in Signals :
          /\ gstate' = "zombie"
          /\ gstatus' = Signaled(s)
    /\ UNCHANGED <<inputs, probe, did, file, runNo, parentVars, childVars, gpos,
                   launched, pty, written>>

\* ---- the next invocation with the same inputs (line 62) ----

Invoke ==
    /\ ParentEnded
    /\ ~SlaveOpen
    /\ runNo < MaxRuns
    /\ runNo' = runNo + 1
    /\ prev' = [ended |-> pc, file |-> file, written |-> written]
    /\ pc' = "resolve"
    /\ executable_path' = <<>>
    /\ master' = "none"
    /\ output' = <<>>
    /\ stdout' = <<>>
    /\ parentStatus' = NoStatus
    /\ cstate' = "none"
    /\ cstatus' = NoStatus
    /\ gstate' = "none"
    /\ gstatus' = NoStatus
    /\ gpos' = 0
    /\ launched' = <<>>
    /\ pty' = <<>>
    /\ written' = <<>>
    /\ probe' = NoProbe
    /\ did' = {}
    /\ UNCHANGED <<command_args, outpath_writable, prog, file>>

Next ==
    \/ Resolve
    \/ ForkPty
    \/ Read
    \/ ReadEof
    \/ ReadErr
    \/ Println
    \/ Return
    \/ ChildSpawn
    \/ ChildExit
    \/ KillChild
    \/ TargetWrite
    \/ TargetExit
    \/ KillTarget

Spec == Init /\ [][Next]_vars

\* the same command invoked repeatedly with the same output path
InitRuns ==
    /\ Init
    /\ command_args = <<"p">>
    /\ outpath_writable

NextRuns ==
    \/ Next
    \/ Invoke

SpecRuns == InitRuns /\ [][NextRuns]_vars

\* one invocation under the fairness the operating system's scheduler gives
\* the three processes; signals and read failures may or may not happen
InitFair ==
    /\ Init
    /\ command_args = <<"p">>
    /\ outpath_writable
    /\ file = <<>>

Fairness ==
    /\ WF_vars(Resolve)
    /\ WF_vars(ForkPty)
    /\ WF_vars(Read)
    /\ WF_vars(ReadEof)
    /\ WF_vars(Println)
    /\ WF_vars(Return)
    /\ WF_vars(ChildSpawn)
    /\ WF_vars(ChildExit)
    /\ WF_vars(TargetWrite)
    /\ WF_vars(TargetExit)

FairSpec == InitFair /\ [][Next]_vars /\ Fairness

\* ---- properties ----

IsPrefix(a, b) == Len(a) <= Len(b) /\ SubSeq(b, 1, Len(a)) = a

Forked == cstate # "none"

\* the parent failed before the duplication point (it never held a master)
PreForkFailed == pc = "panicked" /\ master = "none"

\* the forked child ended because Command::status() could not start the target
LaunchFailed == cstate = "zombie" /\ gstate = "none" /\ cstatus.kind = "exit"

\* C1: when the target ended normally with exit code E and the run ended
\* without error, the invoking process's exit status is E.
C1_ExitCodePropagated ==
    (pc = "done" /\ gstatus.kind = "exit" /\ cstatus.kind = "exit")
        => parentStatus = Exited(gstatus.val)

\* C2: when the session ends without error, the file at output_path holds
\* exactly the bytes delivered by the pty, nothing added and nothing removed.
C2_FileHoldsCapture ==
    (pc = "done" /\ outpath_writable) => file = written

\* C3: once duplication has happened, the parent has reaped the child by the
\* time the parent itself terminates, on the success path and on error paths.
C3_ChildReapedBeforeParentEnds ==
    (ParentEnded /\ Forked) => cstate = "reaped"

\* C4: when the target is terminated by a signal, the invoking process ends
\* with a sentinel status that cannot be taken for a normal exit (weakest
\* reading: it is not the status of a target that exited with 0).
C4_SignalGivesSentinel ==
    (ParentEnded /\ Forked /\ gstatus.kind = "signal")
        => parentStatus # Exited(0)

\* C5: a launch failure ends the forked child with a nonzero status, and that
\* status is used for no other outcome of the child.
C5_LaunchFailureStatusDistinct ==
    /\ LaunchFailed => cstatus.val # 0
    /\ (cstate = "zombie" /\ ~LaunchFailed) => cstatus # Exited(PanicCode)

\* C6: during the drain the capture only grows, it is always a prefix of the
\* bytes written to the pty, and when the drain ends at end-of-stream it
\* equals all of them.
C6_CaptureAppendOnly ==
    [][pc = "drain" =>
          /\ IsPrefix(output, output')
          /\ IsPrefix(output', written')
          /\ (pty = <<>> /\ ~SlaveOpen /\ pc' # "drain") => output' = written'
      ]_vars

\* C7: when the file at output_path cannot be created or written, the run
\* does not end in success.
C7_UnwritableOutputIsAnError ==
    ~outpath_writable => pc # "done"

\* C8: a failure before the duplication point leaves no child process, has
\* not run the target, and leaves the file at output_path as it was.
C8_PreForkFailureLeavesNothing ==
    /\ [](PreForkFailed =>
            /\ cstate = "none"
            /\ gstate = "none"
            /\ launched = <<>>
            /\ written = <<>>)
    /\ [][(pc \in {"resolve", "fork"}) => (file' = file)]_vars

\* C8 witness: pty allocation failed after a successful resolution, with a
\* pre-existing file at output_path
C8_Witness ==
    PreForkFailed /\ executable_path # <<>> /\ file # <<>>

\* C9: after a second successful run of the same deterministic command the
\* file equals what the first run left and holds exactly this run's capture,
\* whatever it held before.
C9_SecondRunReplacesFile ==
    (/\ runNo > 1
     /\ pc = "done"
     /\ prev.ended = "done"
     /\ written = prog.out
     /\ prev.written = prog.out)
        => (file = prev.file /\ file = written)

\* C10: once the forked child and the target have terminated, the parent's
\* drain eventually ends; and once the drain has seen end-of-stream, the
\* parent eventually ends with the child's termination status obtained (the
\* child reaped).
C10_ChildTerminationObserved ==
    /\ (pc = "drain" /\ cstate = "zombie" /\ gstate # "running")
           ~> (pc # "drain")
    /\ (pc = "print") ~> (pc = "done" /\ cstate = "reaped")

\* the parent failed while draining (it held a master when it panicked)
CaptureFailed == pc = "panicked" /\ master = "closed"

\* C11: a failed read, or a capture that is not valid UTF-8, ends the parent
\* with the panic status and nothing printed; the drain ends successfully
\* only at end-of-stream (pty empty, slave closed) with a valid capture.
C11_ReadFailureIsCaptureError ==
    /\ [](CaptureFailed => (parentStatus = Exited(PanicCode) /\ stdout = <<>>))
    /\ []((pc \in {"print", "ret", "done"}) => IsUtf8(written))
    /\ [][(pc = "drain" /\ pc' = "print")
            => (pty = <<>> /\ ~SlaveOpen /\ output = written)]_vars

\* C11 witness: the capture held a byte that is not UTF-8 and the parent
\* panicked in the drain
C11_Witness ==
    CaptureFailed /\ written # <<>> /\ ~IsUtf8(written) /\ ~SlaveOpen

\* operations of the parent branch (lines 82-86, 97) and of the child
\* branch (lines 89-94)
ParentOps == {"read", "print", "return"}
ChildOps == {"launch", "exit", "panic", "killed"}

\* C12: the parent only drains, prints and returns and never launches the
\* target; the child only launches the target and ends by exit, panic or
\* signal, never reading the master, printing the capture or returning.
C12_RolesExclusive ==
    /\ \A d \in did :
          /\ (d[1] = "parent") => (d[2] \in ParentOps)
          /\ (d[1] = "child") => (d[2] \in ChildOps)
    /\ (launched # <<>>) => (<<"child", "launch">> \in did)
    /\ (cstate = "zombie") =>
          (/\ did \cap {<<"child", "exit">>, <<"child", "panic">>,
                         <<"child", "killed">>} # {}
           /\ (cstatus = Exited(0)) => (gstatus = Exited(0)))

\* C12 witness: the target had no exit code, the child panicked, and the
\* parent drained, printed and returned
C12_Witness ==
    /\ pc = "done"
    /\ gstatus.kind = "signal"
    /\ {<<"parent", "read">>, <<"parent", "print">>, <<"parent", "return">>,
        <<"child", "launch">>, <<"child", "panic">>} \subseteq did

\* C13: the capture is printed at most once, in the step after the drain has
\* ended at end-of-stream, and whatever has been printed is the one line
\* made of the complete capture; nothing is printed while the drain runs.
C13_EmittedOnceAfterCapture ==
    /\ []((stdout # <<>>) =>
            (/\ pc \in {"ret", "done"}
             /\ ~SlaveOpen
             /\ pty = <<>>
             /\ output = written
             /\ stdout = TtyPrefix \o Trim(written) \o <<10>>))
    /\ [][(stdout' # stdout) => (stdout = <<>> /\ pc = "print")]_vars

\* C13 witness: a non-empty capture has been printed
C13_Witness ==
    stdout # <<>> /\ Trim(written) # <<>> /\ gstatus.kind = "exit"

\* C14: the target is launched with the arguments c1..cn of the command list
\* [c0..cn], in that order, none dropped or repeated, and c0 names the
\* program and is not among the arguments passed.
C14_ArgsPassedInOrder ==
    (launched # <<>>) =>
        (/\ command_args # <<>>
         /\ Len(launched[1].args) = Len(command_args) - 1
         /\ \A i \in 1..Len(launched[1].args) :
               launched[1].args[i] = command_args[i + 1]
         /\ launched[1].path[2] = command_args[1])

\* C14 witness: a launch with two different arguments
C14_Witness ==
    /\ launched # <<>>
    /\ Len(launched[1].args) = 2
    /\ launched[1].args[1] # launched[1].args[2]

\* processes of the session that are running
LiveCount ==
    (IF ParentEnded THEN 0 ELSE 1)
    + (IF cstate \in {"start", "waiting"} THEN 1 ELSE 0)
    + (IF gstate = "running" THEN 1 ELSE 0)

C16_ResolutionFirst ==
    /\ (master # "none" \/ Forked) =>
          (executable_path # <<>> /\ probe.exists # "unknown")
    /\ (probe.exists = "yes") =>
          (/\ probe.which = "unused"
           /\ executable_path = <<"", command_args[1]>>)
    /\ (probe.exists = "no" /\ probe.which = "found") =>
          (executable_path = <<"PATH", command_args[1]>>)
    /\ ((command_args = <<>> /\ pc # "resolve") \/ probe.which = "missing") =>
          (/\ PreForkFailed
           /\ ~Forked
           /\ executable_path = <<>>
           /\ launched = <<>>)

\* C16 witness: an existing path was taken as it is and the target launched
C16_Witness ==
    /\ probe.exists = "yes"
    /\ launched # <<>>
    /\ launched[1].path = <<"", command_args[1]>>

TypeOK ==
    /\ pc \in {"resolve", "fork", "drain", "print", "ret", "done", "panicked"}
    /\ master \in {"none", "open", "closed"}
    /\ cstate \in {"none", "start", "waiting", "zombie", "reaped"}
    /\ gstate \in {"none", "running", "zombie", "reaped"}
    /\ gpos \in 0..Len(prog.out)
    /\ runNo \in 1..MaxRuns
====
